---- MODULE Spec2Model ----
(***************************************************************************)
(* Interview Management Platform: the application status workflow          *)
(* (apps/jobs/models.py), the invitation lifecycle (users/models.py,       *)
(* users/views.py) and the password-reset request endpoints                *)
(* (users/views.py, apps/authentication/views.py), as state machines over  *)
(* the shared relational store.  Every database statement is one atomic    *)
(* step (Django autocommit; settings.py sets neither ATOMIC_REQUESTS nor   *)
(* any transaction.atomic block).                                          *)
(***************************************************************************)
EXTENDS Integers, Sequences, FiniteSets, TLC

(* ------------------------------ bounds -------------------------------- *)
\* the clock runs from 1 to MaxTime
MaxTime == 2
\* update_status calls in one behaviour
MaxCalls == 2
\* accept requests in one behaviour
MaxRequests == 3
\* password-reset requests in one behaviour
MaxResets == 3

(* --------------------------- shared values ---------------------------- *)
\* a nullable DateTimeField that holds no value (null=True, blank=True)
Null == 0

VARIABLES
  now,            \* timezone.now(), in clock ticks
  applications,   \* job_application rows: id -> [status, reviewed_at, hr_notes]
  history,        \* application_status_history rows, in insertion order
  calls,          \* per application: update_status calls made so far
  lastArg,        \* per application: new_status of the latest call
  lastCall,       \* the latest update_status call: its outcome and the store before it
  userRole,       \* users.User.role, per user
  invitations,    \* users.Invitation rows: id -> record
  reqs,           \* accept requests in flight: position, request.user, the loaded invitation
  nRequests,      \* accept requests started so far
  acceptRuns,     \* per invitation: executions of Invitation.accept
  grantees,       \* per invitation: users whose role Invitation.accept has written
  resetToken,     \* users.User.password_reset_token, per account
  resetExpires,   \* users.User.password_reset_expires, per account
  nextToken,      \* the next uuid4 value
  authUsers,      \* apps.authentication User rows, by stored email: [exists, is_active]
  observed,       \* responses of the reset-request endpoints seen so far
  nResets,         \* reset requests made so far
  registered,     \* per registration endpoint: the stored user rows
  regs,           \* registration requests in flight: position, validated data, response
  nRegistrations, \* registration requests started so far
  chatClock,      \* timezone.now() of the screening sessions, in seconds
  sessions,       \* chat_session rows: id -> record
  resultCount,    \* per session: its ScreeningResult rows
  chatOp,         \* the latest operation on a session: number, name, session, value read
  nElapses,       \* clock advances made so far
  profileUser,    \* the user whose profile completion is computed
  completion,     \* the latest calculate_profile_completion result
  published_at,   \* apps.jobs Job.published_at, per job
  jobWrites,      \* per job: UPDATE statements publish() has issued
  publishCalls,   \* per job: publish() calls made so far
  lastPublish,    \* the latest publish() call: its job and its time
  jobRows,        \* jobs.Job rows: id -> record
  jobApplications,\* jobs.JobApplication rows
  applyReqs,      \* create-application requests in flight
  nApplies,        \* create-application requests started so far
  lastQuery,       \* the latest list or retrieve request and what it returned
  updReqs,        \* update_status calls in flight: position, the loaded instance, what was overwritten
  nUpdates,        \* concurrent update_status calls started so far
  configRows,     \* screening_configuration rows: id -> [exists, is_default]
  saveReqs,       \* ScreeningConfiguration.save calls in flight
  nSaves,          \* save calls started so far
  password,       \* users.User.password, per account
  isVerified,     \* users.User.is_verified, per account
  verifyToken,    \* users.User.email_verification_token, per account
  verifyExpires,  \* users.User.email_verification_expires, per account
  usedTokens,     \* tokens a reset_password or verify_email request has succeeded with
  lastTokenOp     \* the latest reset_password or verify_email request and its response

appVars == <<applications, history, calls, lastArg, lastCall>>
invVars == <<userRole, invitations, reqs, nRequests, acceptRuns, grantees>>
resetVars == <<resetToken, resetExpires, nextToken, authUsers, observed, nResets>>
regVars == <<registered, regs, nRegistrations>>
\* the variables of the subsystems that follow the reset endpoints
chatVars == <<chatClock, sessions, resultCount, chatOp, nElapses>>
profVars == <<profileUser, completion>>
postVars == <<published_at, jobWrites, publishCalls, lastPublish>>
applyVars == <<jobRows, jobApplications, applyReqs, nApplies>>
queryVars == <<lastQuery>>
raceVars == <<updReqs, nUpdates>>
configVars == <<configRows, saveReqs, nSaves>>
tokenVars == <<password, isVerified, verifyToken, verifyExpires, usedTokens, lastTokenOp>>
laterVars == <<regVars, chatVars, profVars, postVars, applyVars, queryVars, raceVars, configVars, tokenVars>>
\* per subsystem: everything outside it
regOthers == <<now, appVars, invVars, resetVars, chatVars, profVars, postVars, applyVars, queryVars, raceVars, configVars, tokenVars>>
chatOthers == <<now, appVars, invVars, resetVars, regVars, profVars, postVars, applyVars, queryVars, raceVars, configVars, tokenVars>>
profOthers == <<now, appVars, invVars, resetVars, regVars, chatVars, postVars, applyVars, queryVars, raceVars, configVars, tokenVars>>
applyOthers == <<appVars, invVars, resetVars, regVars, chatVars, profVars, postVars, queryVars, raceVars, configVars, tokenVars>>
postOthers == <<appVars, invVars, resetVars, regVars, chatVars, profVars, applyVars, queryVars, raceVars, configVars, tokenVars>>
queryOthers == <<appVars, invVars, resetVars, regVars, chatVars, profVars, postVars, applyVars, raceVars, configVars, tokenVars>>
raceOthers == <<appVars, invVars, resetVars, regVars, chatVars, profVars, postVars, applyVars, queryVars, configVars, tokenVars>>
laterVarsButRace == <<regVars, chatVars, profVars, postVars, applyVars, queryVars, configVars, tokenVars>>
configOthers == <<appVars, invVars, resetVars, regVars, chatVars, profVars, postVars, applyVars, queryVars, raceVars, tokenVars>>
tokenOthers == <<appVars, invVars, resetVars, regVars, chatVars, profVars, postVars, applyVars, queryVars, raceVars, configVars>>
tokenOthersButReset == <<appVars, invVars, regVars, chatVars, profVars, postVars, applyVars, queryVars, raceVars, configVars>>
vars == <<now, appVars, invVars, resetVars, laterVars>>

(* ======================= application status workflow =================== *)

\* JobApplication.ApplicationStatus
ApplicationStatus ==
  {"pending", "screening", "under_review", "shortlisted", "interview_scheduled",
   "interviewed", "offered", "hired", "rejected", "withdrawn"}

\* the statuses whose first entry stamps reviewed_at
ReviewedStatuses == {"under_review", "shortlisted"}

\* the applications of the store
Apps == {"app1", "app2"}

\* the notes arguments tried: notes="" (the default) and one non-empty note
NotesArgs == {<<>>, <<"n">>}

\* notes arguments with white space: a blank note, a note that ends in a newline
NotesArgsWide == NotesArgs \cup {<<" ">>, <<"n", "\n">>}

\* the new_status arguments used with them
NotesStatuses == {"screening", "under_review"}

\* str.strip() on a string held as a sequence of characters/tokens
IsSpace(c) == c \in {" ", "\n"}

RECURSIVE LStrip(_)
LStrip(s) == IF s # <<>> /\ IsSpace(Head(s)) THEN LStrip(Tail(s)) ELSE s

RECURSIVE RStrip(_)
RStrip(s) ==
  IF s # <<>> /\ IsSpace(s[Len(s)]) THEN RStrip(SubSeq(s, 1, Len(s) - 1)) ELSE s

Strip(s) == RStrip(LStrip(s))

\* timezone.now().strftime('%Y-%m-%d %H:%M') as one token
Strftime(t) == ToString(t)

\* the new entry alone: the earlier text dropped
AppendNote_Overwrite(hr_notes, t, notes) ==
  Strip(<<Strftime(t)>> \o <<":", " ">> \o notes)

\* f"{self.hr_notes}\n\n{ts}: {notes}".strip()
AppendNote(hr_notes, t, notes) ==
  Strip(hr_notes \o <<"\n", "\n">> \o <<Strftime(t)>> \o <<":", " ">> \o notes)

\* the hr_notes field after update_status: untouched when notes is falsy
HrNotesAfter(hr_notes, t, notes) ==
  IF notes # <<>> THEN AppendNote(hr_notes, t, notes) ELSE hr_notes

ReviewedAtAfter_Restamp(reviewed_at, new_status, t) ==
  IF new_status \in ReviewedStatuses THEN t ELSE reviewed_at

\* the reviewed_at field after update_status (lines 380-384)
ReviewedAtAfter(reviewed_at, new_status, t) ==
  IF new_status \in ReviewedStatuses /\ reviewed_at = Null THEN t ELSE reviewed_at

\* the in-memory instance after the assignments of update_status, before save()
Mutated(app, new_status, notes, t) ==
  [status |-> new_status,
   reviewed_at |-> ReviewedAtAfter(app.reviewed_at, new_status, t),
   hr_notes |-> HrNotesAfter(app.hr_notes, t, notes)]

HistoryRow_NewAsOld(a, old_status, new_status, notes) ==
  [application |-> a, old_status |-> new_status, new_status |-> new_status,
   notes |-> notes]

\* the row ApplicationStatusHistory.objects.create(...) inserts
HistoryRow(a, old_status, new_status, notes) ==
  [application |-> a, old_status |-> old_status, new_status |-> new_status,
   notes |-> notes]

\* the bookkeeping of one call: who was called with what, and how it ended
Called(a, new_status, outcome) ==
  /\ calls' = [calls EXCEPT ![a] = @ + 1]
  /\ lastArg' = [lastArg EXCEPT ![a] = new_status]
  /\ lastCall' = [app |-> a, outcome |-> outcome,
                  before |-> applications[a], rowsBefore |-> history]

CallsMade == calls["app1"] + calls["app2"]

update_status_SkipSame(a, new_status, notes) ==
  /\ CallsMade < MaxCalls
  /\ applications' = [applications EXCEPT
                        ![a] = Mutated(applications[a], new_status, notes, now)]
  /\ history' = IF applications[a].status = new_status THEN history
                ELSE Append(history,
                            HistoryRow(a, applications[a].status, new_status, notes))
  /\ Called(a, new_status, "returned")
  /\ UNCHANGED <<laterVars, now, invVars, resetVars>>

update_status_Validated(a, new_status, notes) ==
  /\ CallsMade < MaxCalls
  /\ applications[a].status \notin {"hired", "rejected", "withdrawn"}
  /\ applications' = [applications EXCEPT
                        ![a] = Mutated(applications[a], new_status, notes, now)]
  /\ history' = Append(history,
                       HistoryRow(a, applications[a].status, new_status, notes))
  /\ Called(a, new_status, "returned")
  /\ UNCHANGED <<laterVars, now, invVars, resetVars>>

\* JobApplication.update_status on a freshly loaded instance, both writes succeeding
update_status(a, new_status, notes) ==
  /\ CallsMade < MaxCalls
  /\ applications' = [applications EXCEPT
                        ![a] = Mutated(applications[a], new_status, notes, now)]
  /\ history' = Append(history,
                       HistoryRow(a, applications[a].status, new_status, notes))
  /\ Called(a, new_status, "returned")
  /\ UNCHANGED <<laterVars, now, invVars, resetVars>>

\* update_status when self.save() raises: nothing is written, the error propagates
update_status_save_raises(a, new_status, notes) ==
  /\ CallsMade < MaxCalls
  /\ Called(a, new_status, "raised")
  /\ UNCHANGED <<laterVars, applications, history, now, invVars, resetVars>>

\* update_status when the history insert raises: save() has already committed
update_status_create_raises(a, new_status, notes) ==
  /\ CallsMade < MaxCalls
  /\ applications' = [applications EXCEPT
                        ![a] = Mutated(applications[a], new_status, notes, now)]
  /\ Called(a, new_status, "raised")
  /\ UNCHANGED <<laterVars, history, now, invVars, resetVars>>

\* the clock advances
Tick ==
  /\ now < MaxTime
  /\ now' = now + 1
  /\ UNCHANGED <<laterVars, appVars, invVars, resetVars>>

(* ========================== invitation lifecycle ====================== *)

\* the accounts of the users app, and the address each signs in with
Users == {"u_hr", "u_c"}

Email(u) == IF u = "u_hr" THEN "hr@x" ELSE "c@x"

\* addresses an invitation can be sent to: an HR user's, a candidate's, nobody's yet
InviteEmails == {"c@x", "n@x"}

\* Invitation.INVITATION_TYPES
INVITATION_TYPES == {"candidate", "interviewer", "hr"}

InvIds == {"inv1"}

\* the accept requests that can be in flight at once
ReqIds == {"r1", "r2"}

\* a primary key with no row behind it
NoInvitation ==
  [exists |-> FALSE, email |-> "n@x", role |-> "candidate", is_accepted |-> FALSE,
   accepted_at |-> Null, expires_at |-> Null]

NoResponse == [status |-> 0, body |-> "none"]

IdleRequest ==
  [pc |-> "idle", user |-> "u_c", role |-> "candidate", pk |-> "inv1",
   snap |-> NoInvitation, late |-> FALSE, checked_at |-> Null,
   response |-> NoResponse]

\* User.is_hr_or_admin
is_hr_or_admin(role) == role \in {"admin", "hr"}

get_queryset_All(role, email, inv) == inv.exists

\* InvitationViewSet.get_queryset: whether the row is in the requester's queryset
get_queryset(role, email, inv) ==
  inv.exists /\ (is_hr_or_admin(role) \/ inv.email = email)

is_expired_Inclusive(inv, t) == t >= inv.expires_at

\* Invitation.is_expired
is_expired(inv, t) == t > inv.expires_at

\* InvitationViewSet.perform_create / InvitationCreateSerializer.create:
\* any authenticated user stores a pending invitation
perform_create(u, i, email, role, expires_at) ==
  /\ ~invitations[i].exists
  /\ invitations' = [invitations EXCEPT
                       ![i] = [exists |-> TRUE, email |-> email, role |-> role,
                               is_accepted |-> FALSE, accepted_at |-> Null,
                               expires_at |-> expires_at]]
  /\ UNCHANGED <<laterVars, now, appVars, userRole, reqs, nRequests, acceptRuns, grantees,
                 resetVars>>

\* an accept request arrives: JWT authentication loads request.user
accept_authenticate(r, u, i) ==
  /\ reqs[r].pc \in {"idle", "done"}
  /\ nRequests < MaxRequests
  /\ nRequests' = nRequests + 1
  /\ reqs' = [reqs EXCEPT
                ![r] = [IdleRequest EXCEPT
                          !.pc = "authenticated", !.user = u, !.role = userRole[u],
                          !.pk = i, !.late = invitations[i].is_accepted]]
  /\ UNCHANGED <<laterVars, now, appVars, userRole, invitations, acceptRuns, grantees,
                 resetVars>>

\* self.get_object(): the row is read through get_queryset, or the request ends 404
accept_get_object(r) ==
  /\ reqs[r].pc = "authenticated"
  /\ LET q == reqs[r]
         row == invitations[q.pk]
     IN reqs' = [reqs EXCEPT
                   ![r] = IF get_queryset(q.role, Email(q.user), row)
                          THEN [q EXCEPT !.pc = "loaded", !.snap = row]
                          ELSE [q EXCEPT !.pc = "done",
                                         !.response = [status |-> 404,
                                                       body |-> "Not found."]]]
  /\ UNCHANGED <<laterVars, now, appVars, userRole, invitations, nRequests, acceptRuns,
                 grantees, resetVars>>

\* a request that ends here with a 400
Rejected(q, t, body) ==
  [q EXCEPT !.pc = "done", !.checked_at = t,
            !.response = [status |-> 400, body |-> body]]

accept_checks_NoExpiry(r) ==
  /\ reqs[r].pc = "loaded"
  /\ LET q == reqs[r]
     IN reqs' = [reqs EXCEPT
                   ![r] = IF q.snap.is_accepted
                          THEN Rejected(q, now, "Invitation already accepted")
                          ELSE [q EXCEPT !.pc = "accepting", !.checked_at = now]]
  /\ UNCHANGED <<laterVars, now, appVars, userRole, invitations, nRequests, acceptRuns,
                 grantees, resetVars>>

\* the two guards of InvitationViewSet.accept, on the loaded instance
accept_checks(r) ==
  /\ reqs[r].pc = "loaded"
  /\ LET q == reqs[r]
     IN reqs' = [reqs EXCEPT
                   ![r] = IF is_expired(q.snap, now)
                          THEN Rejected(q, now, "Invitation has expired")
                          ELSE IF q.snap.is_accepted
                          THEN Rejected(q, now, "Invitation already accepted")
                          ELSE [q EXCEPT !.pc = "accepting", !.checked_at = now]]
  /\ UNCHANGED <<laterVars, now, appVars, userRole, invitations, nRequests, acceptRuns,
                 grantees, resetVars>>

\* Invitation.accept, first half: the flag and the stamp are set and self.save()
\* writes the loaded instance
Invitation_accept_save(r) ==
  /\ reqs[r].pc = "accepting"
  /\ LET inv == [reqs[r].snap EXCEPT !.is_accepted = TRUE, !.accepted_at = now]
     IN /\ invitations' = [invitations EXCEPT ![reqs[r].pk] = inv]
        /\ reqs' = [reqs EXCEPT ![r] = [@ EXCEPT !.pc = "saved", !.snap = inv]]
  /\ acceptRuns' = [acceptRuns EXCEPT ![reqs[r].pk] = @ + 1]
  /\ UNCHANGED <<laterVars, now, appVars, userRole, nRequests, grantees, resetVars>>

\* Invitation.accept, second half: user.role = self.role; user.save(); then the
\* view answers 200
Invitation_accept_user_save(r) ==
  /\ reqs[r].pc = "saved"
  /\ userRole' = [userRole EXCEPT ![reqs[r].user] = reqs[r].snap.role]
  /\ grantees' = [grantees EXCEPT ![reqs[r].pk] = @ \cup {reqs[r].user}]
  /\ reqs' = [reqs EXCEPT
                ![r] = [@ EXCEPT !.pc = "done",
                                 !.response = [status |-> 200,
                                               body |-> "Invitation accepted successfully"]]]
  /\ UNCHANGED <<laterVars, now, appVars, invitations, nRequests, acceptRuns, resetVars>>

(* ====================== password-reset request endpoints ============== *)

\* the addresses submitted: two with an account, one without, one in capitals
ResetEmails == {"hr@x", "c@x", "n@x", "C@X"}

\* str.lower()
Lower(e) == IF e \in {"C@X", "C@x", "c@X"} THEN "c@x" ELSE e

\* the stored addresses of the apps.authentication accounts
AuthEmails == {"hr@x", "c@x", "n@x"}

\* timezone.timedelta(hours=24), in clock ticks
PASSWORD_RESET_HOURS == 24

\* what a caller of a reset-request endpoint sees
Observation(endpoint, email, had_account, status, body) ==
  [endpoint |-> endpoint, email |-> email, had_account |-> had_account,
   status |-> status, body |-> body]

\* User.objects.get(email=email) of the users app: the exact address, or DoesNotExist
UsersWithEmail(email) == {u \in Users : Email(u) = email}

\* UserViewSet.request_password_reset with a well-formed address
request_password_reset(email) ==
  /\ nResets < MaxResets
  /\ nResets' = nResets + 1
  /\ IF UsersWithEmail(email) # {}
     THEN LET user == CHOOSE u \in UsersWithEmail(email) : TRUE
          IN /\ resetToken' = [resetToken EXCEPT ![user] = nextToken]
             /\ resetExpires' = [resetExpires EXCEPT
                                   ![user] = now + PASSWORD_RESET_HOURS]
             /\ nextToken' = nextToken + 1
             /\ observed' = observed \cup
                  {Observation("users", email, TRUE, 200, "Password reset email sent")}
     ELSE /\ UNCHANGED <<resetToken, resetExpires, nextToken>>
          /\ observed' = observed \cup
               {Observation("users", email, FALSE, 200, "Password reset email sent")}
  /\ UNCHANGED <<laterVars, now, appVars, invVars, authUsers>>

\* PasswordResetRequestSerializer.validate_email: the lookup that decides is_valid()
ActiveAccount(email) ==
  authUsers[Lower(email)].exists /\ authUsers[Lower(email)].is_active

\* PasswordResetRequestView.post with a well-formed address
PasswordResetRequestView_post(email) ==
  /\ nResets < MaxResets
  /\ nResets' = nResets + 1
  /\ observed' = observed \cup
       {IF ActiveAccount(email)
        THEN Observation("authentication", email, authUsers[Lower(email)].exists,
                         200, "Password reset email sent successfully")
        ELSE Observation("authentication", email, authUsers[Lower(email)].exists,
                         400, "No active account found with this email address.")}
  /\ UNCHANGED <<laterVars, now, appVars, invVars, resetToken, resetExpires, nextToken,
                 authUsers>>

(* ============================ registration ============================ *)

\* registration requests made, over the whole behaviour
MaxRegistrations == 3

\* the two registration endpoints, each over its own User table
RegEndpoints == {"users", "authentication"}

\* the addresses submitted: one stored already, two spellings of it, one new
RegEmails == {"c@x", "C@x", "c@X", "n@x"}

\* the role is a writable field of both registration serializers
RegRoles == {"candidate", "hr"}

\* the requests that can be in flight together
RegIds == {"g1", "g2"}

\* timezone.timedelta(hours=24) of the verification link, in clock ticks
EMAIL_VERIFICATION_HOURS == 24

\* BaseUserManager.normalize_email: the domain part in lower case, the local part kept
NormalizeEmail(e) ==
  IF e = "c@X" THEN "c@x" ELSE IF e = "C@X" THEN "C@x" ELSE e

IdleRegistration ==
  [pc |-> "idle", endpoint |-> "users", email |-> "", role |-> "candidate",
   status |-> 0, body |-> ""]

\* the email column of an endpoint's User table
StoredEmails(ep) == {row.email : row \in registered[ep]}

\* email = EmailField(unique=True): the validator the serializer derives from it
\* compares the submitted address with the stored ones as they are
UniqueValidator(ep, value) == value \notin StoredEmails(ep)

\* apps.authentication UserRegistrationSerializer.validate_email
validate_email(value) == Lower(value) \notin StoredEmails("authentication")

RegistrationRejected(q, body) ==
  [q EXCEPT !.pc = "done", !.status = 400, !.body = body]

\* serializer.is_valid() of a registration request
register_is_valid(g, ep, email, role) ==
  /\ regs[g].pc \in {"idle", "done"}
  /\ nRegistrations < MaxRegistrations
  /\ nRegistrations' = nRegistrations + 1
  /\ LET q == [IdleRegistration EXCEPT !.endpoint = ep, !.email = email,
                                       !.role = role]
     IN  regs' = [regs EXCEPT ![g] =
           IF ~UniqueValidator(ep, email)
           THEN RegistrationRejected(q, "user with this email already exists.")
           ELSE IF ep = "authentication"
           THEN IF validate_email(email)
                THEN [q EXCEPT !.pc = "valid", !.email = Lower(email)]
                ELSE RegistrationRejected(q, "A user with this email already exists.")
           ELSE [q EXCEPT !.pc = "valid"]]
  /\ UNCHANGED <<regOthers, registered>>

\* serializer.save() and the rest of the view: create_user inserts the row, the
\* profile is created, the users endpoint stamps the verification token; an
\* insert that meets the unique index raises IntegrityError
register_save(g) ==
  /\ regs[g].pc = "valid"
  /\ LET q == regs[g]
         e == NormalizeEmail(q.email)
     IN  IF e \in StoredEmails(q.endpoint)
         THEN /\ regs' = [regs EXCEPT ![g] =
                   [q EXCEPT !.pc = "done", !.status = 500, !.body = "IntegrityError"]]
              /\ UNCHANGED registered
         ELSE /\ registered' = [registered EXCEPT ![q.endpoint] = @ \cup
                   {[email |-> e, role |-> q.role, has_profile |-> TRUE,
                     email_verification_token |->
                       IF q.endpoint = "users" THEN nRegistrations ELSE Null,
                     email_verification_expires |->
                       IF q.endpoint = "users" THEN now + EMAIL_VERIFICATION_HOURS
                       ELSE Null]}]
              /\ regs' = [regs EXCEPT ![g] =
                   [q EXCEPT !.pc = "done", !.status = 201, !.email = e,
                             !.body = "User registered successfully"]]
  /\ UNCHANGED <<regOthers, nRegistrations>>

\* the accounts present before any registration request
InitRegistration ==
  /\ registered = [ep \in RegEndpoints |->
       {[email |-> "c@x", role |-> "candidate", has_profile |-> TRUE,
         email_verification_token |-> Null, email_verification_expires |-> Null]}]
  /\ regs = [g \in RegIds |-> IdleRegistration]
  /\ nRegistrations = 0

(* ========================= screening sessions ========================= *)

\* operations on sessions, over the whole behaviour
MaxChatOps == 7

\* clock advances, over the whole behaviour
MaxElapses == 2

SessionIds == {"s1"}

SessionStatus == {"active", "completed", "abandoned", "error"}

\* total_questions of a new session
TotalQuestions == {0, 3, 10}

\* seconds between two operations: half a minute, or the rest of a quarter of an hour
ElapseSeconds == {30, 870}

\* a / b of two integers, kept exact as numerator and denominator
Ratio(a, b) == [num |-> a, den |-> b]

\* q * k
Times(q, k) == [num |-> q.num * k, den |-> q.den]

RatEq(p, q) == p.num * q.den = q.num * p.den

NoSession ==
  [exists |-> FALSE, status |-> "active", total_questions |-> 0,
   questions_answered |-> 0, started_at |-> Null, completed_at |-> Null,
   last_activity |-> Null, duration_minutes |-> Null]

\* the obvious slip: floor division in place of true division
progress_percentage_FloorDiv(sess) ==
  IF sess.total_questions = 0 THEN Ratio(0, 1)
  ELSE Ratio((sess.questions_answered \div sess.total_questions) * 100, 1)

\* ChatSession.progress_percentage
progress_percentage(sess) ==
  IF sess.total_questions = 0 THEN Ratio(0, 1)
  ELSE Times(Ratio(sess.questions_answered, sess.total_questions), 100)

\* rounding to the nearest minute in place of truncation
DurationMinutes_Rounded(started_at, completed_at) ==
  (completed_at - started_at + 30) \div 60

\* int(duration.total_seconds() / 60): truncation towards zero
DurationMinutes(started_at, completed_at) ==
  LET secs == completed_at - started_at
  IN  IF secs >= 0 THEN secs \div 60 ELSE 0 - ((0 - secs) \div 60)

ChatOp(name, s, value) ==
  [n |-> chatOp.n + 1, name |-> name, session |-> s, value |-> value]

\* creation with defaults of one: an answered question on an empty questionnaire
ChatSession_create_AnsweredOne(s, total) ==
  /\ ~sessions[s].exists
  /\ chatOp.n < MaxChatOps
  /\ sessions' = [sessions EXCEPT ![s] =
       [exists |-> TRUE, status |-> "active", total_questions |-> total,
        questions_answered |-> 1, started_at |-> chatClock,
        completed_at |-> Null, last_activity |-> chatClock,
        duration_minutes |-> Null]]
  /\ chatOp' = ChatOp("create", s, Ratio(0, 1))
  /\ UNCHANGED <<chatOthers, chatClock, resultCount,
                 nElapses>>

\* a new ChatSession row: the field defaults, started_at = auto_now_add
ChatSession_create(s, total) ==
  /\ ~sessions[s].exists
  /\ chatOp.n < MaxChatOps
  /\ sessions' = [sessions EXCEPT ![s] =
       [exists |-> TRUE, status |-> "active", total_questions |-> total,
        questions_answered |-> 0, started_at |-> chatClock,
        completed_at |-> Null, last_activity |-> chatClock,
        duration_minutes |-> Null]]
  /\ chatOp' = ChatOp("create", s, Ratio(0, 1))
  /\ UNCHANGED <<chatOthers, chatClock, resultCount,
                 nElapses>>

\* the progress counter of an active session advances by one answered question
answer_question(s) ==
  /\ sessions[s].exists
  /\ sessions[s].status = "active"
  /\ sessions[s].questions_answered < sessions[s].total_questions
  /\ chatOp.n < MaxChatOps
  /\ sessions' = [sessions EXCEPT ![s].questions_answered = @ + 1,
                                  ![s].last_activity = chatClock]
  /\ chatOp' = ChatOp("answer_question", s, Ratio(0, 1))
  /\ UNCHANGED <<chatOthers, chatClock, resultCount,
                 nElapses>>

\* a read of the progress_percentage property
progress_percentage_read(s) ==
  /\ sessions[s].exists
  /\ chatOp.n < MaxChatOps
  /\ chatOp' = ChatOp("progress_percentage", s, progress_percentage(sessions[s]))
  /\ UNCHANGED <<chatOthers, chatClock, sessions,
                 resultCount, nElapses>>

\* ChatSession.complete_session
complete_session(s) ==
  /\ sessions[s].exists
  /\ chatOp.n < MaxChatOps
  /\ LET completed_at == chatClock
     IN  sessions' = [sessions EXCEPT
           ![s].status = "completed",
           ![s].completed_at = completed_at,
           ![s].duration_minutes =
             IF sessions[s].started_at # Null /\ completed_at # Null
             THEN DurationMinutes(sessions[s].started_at, completed_at)
             ELSE @,
           ![s].last_activity = chatClock]
  /\ chatOp' = ChatOp("complete_session", s, Ratio(0, 1))
  /\ UNCHANGED <<chatOthers, chatClock, resultCount,
                 nElapses>>

\* ChatSession.abandon_session
abandon_session(s) ==
  /\ sessions[s].exists
  /\ chatOp.n < MaxChatOps
  /\ sessions' = [sessions EXCEPT ![s].status = "abandoned",
                                  ![s].last_activity = chatClock]
  /\ chatOp' = ChatOp("abandon_session", s, Ratio(0, 1))
  /\ UNCHANGED <<chatOthers, chatClock, resultCount,
                 nElapses>>

\* the ScreeningResult of a completed session is created; session is a
\* OneToOneField, a second row for the same session meets its unique index
ScreeningResult_create(s) ==
  /\ sessions[s].exists
  /\ sessions[s].status = "completed"
  /\ resultCount[s] = 0
  /\ chatOp.n < MaxChatOps
  /\ resultCount' = [resultCount EXCEPT ![s] = @ + 1]
  /\ chatOp' = ChatOp("ScreeningResult_create", s, Ratio(0, 1))
  /\ UNCHANGED <<chatOthers, chatClock, sessions,
                 nElapses>>

\* wall-clock time passes
Elapse(d) ==
  /\ nElapses < MaxElapses
  /\ nElapses' = nElapses + 1
  /\ chatClock' = chatClock + d
  /\ UNCHANGED <<chatOthers, sessions, resultCount,
                 chatOp>>

InitChat ==
  /\ chatClock = 1
  /\ sessions = [s \in SessionIds |-> NoSession]
  /\ resultCount = [s \in SessionIds |-> 0]
  /\ chatOp = [n |-> 0, name |-> "none", session |-> "s1", value |-> Ratio(0, 1)]
  /\ nElapses = 0

(* ========================= profile completion ========================= *)

\* values of a text field: blank, or filled in
TextValues == {"", "a"}

\* values of a nullable date or number: None (or zero), or set
NumberValues == {Null, 3}

\* the profile columns of a user without a UserProfile row
NoProfile == [bio |-> "", linkedin_url |-> "", years_of_experience |-> Null,
              resume |-> ""]

\* the users calculate_profile_completion can be called with
ProfileUsers ==
  { [first_name |-> fn, last_name |-> ln, phone_number |-> ph, date_of_birth |-> d,
     has_profile |-> hp, profile |-> pr, has_skill |-> sk] :
      fn \in TextValues, ln \in TextValues, ph \in TextValues, d \in NumberValues,
      hp \in BOOLEAN, sk \in BOOLEAN,
      pr \in [bio : TextValues, linkedin_url : TextValues,
              years_of_experience : NumberValues, resume : TextValues] }

\* truth value of a str in Python: the empty string is false
TruthyText(v) == v # ""

\* truth value of an optional date or int: None and 0 are false
TruthyNumber(v) == v # Null /\ v # 0

\* completion_fields, entry by entry, as truth values
CompletionFields(u) ==
  <<TruthyText(u.first_name), TruthyText(u.last_name), TruthyText(u.phone_number),
    TruthyNumber(u.date_of_birth)>>
  \o (IF u.has_profile
      THEN <<TruthyText(u.profile.bio), TruthyText(u.profile.linkedin_url),
             TruthyNumber(u.profile.years_of_experience),
             TruthyText(u.profile.resume)>>
      ELSE <<>>)
  \o <<u.has_skill>>

\* sum(1 for field in completion_fields if field)
CompletedFields(fields) == Cardinality({i \in DOMAIN fields : fields[i]})

\* cutting the digits off in place of rounding
Round2_Truncated(k, n) == (10000 * k) \div n

\* round((k / n) * 100, 2), in hundredths: the nearest hundredth
Round2(k, n) == (20000 * k + n) \div (2 * n)

\* the value calculate_profile_completion returns, in hundredths of a percent
ProfileCompletion(u) ==
  LET fields == CompletionFields(u)
  IN  IF Len(fields) > 0 THEN Round2(CompletedFields(fields), Len(fields)) ELSE 0

\* calculate_profile_completion(user)
calculate_profile_completion ==
  /\ ~completion.called
  /\ completion' = [called |-> TRUE, value |-> ProfileCompletion(profileUser),
                    total_fields |-> Len(CompletionFields(profileUser))]
  /\ UNCHANGED <<profOthers, profileUser>>

\* one user with a full profile, before any call
InitProfile ==
  /\ profileUser = [first_name |-> "a", last_name |-> "a", phone_number |-> "a",
                    date_of_birth |-> 3, has_profile |-> TRUE,
                    profile |-> [bio |-> "a", linkedin_url |-> "a",
                                 years_of_experience |-> 3, resume |-> "a"],
                    has_skill |-> TRUE]
  /\ completion = [called |-> FALSE, value |-> 0, total_fields |-> 0]

(* ============================ job postings ============================ *)

\* publish() calls per job, over the whole behaviour
MaxPublishes == 3

PostingIds == {"job1", "job2"}

\* publish() without its guard
publish_Unguarded(j) ==
  /\ publishCalls[j] < MaxPublishes
  /\ publishCalls' = [publishCalls EXCEPT ![j] = @ + 1]
  /\ lastPublish' = [job |-> j, at |-> now]
  /\ published_at' = [published_at EXCEPT ![j] = now]
  /\ jobWrites' = [jobWrites EXCEPT ![j] = @ + 1]
  /\ UNCHANGED <<now, postOthers>>

\* Job.publish, on the job as stored
publish(j) ==
  /\ publishCalls[j] < MaxPublishes
  /\ publishCalls' = [publishCalls EXCEPT ![j] = @ + 1]
  /\ lastPublish' = [job |-> j, at |-> now]
  /\ IF published_at[j] = Null
     THEN /\ published_at' = [published_at EXCEPT ![j] = now]
          /\ jobWrites' = [jobWrites EXCEPT ![j] = @ + 1]
     ELSE UNCHANGED <<published_at, jobWrites>>
  /\ UNCHANGED <<now, postOthers>>

\* two jobs, neither published
InitPosting ==
  /\ published_at = [j \in PostingIds |-> Null]
  /\ jobWrites = [j \in PostingIds |-> 0]
  /\ publishCalls = [j \in PostingIds |-> 0]
  /\ lastPublish = [job |-> "job1", at |-> Null]

(* ===================== applications of the jobs app =================== *)

\* create-application requests, over the whole behaviour
MaxApplies == 3

JobIds == {"job1", "job2"}

\* the requests that can be in flight together
ApplyIds == {"p1", "p2"}

\* the statuses a stored application is re-saved with
ResaveStatuses == {"applied", "screening"}

\* None in max_applications, a nullable PositiveIntegerField whose values start at 0
Unset == -1

\* Job.is_open_for_applications; max_applications counts only when it is truthy:
\* neither None nor 0
is_open_for_applications(j) ==
  LET job == jobRows[j]
  IN  IF ~job.is_active \/ job.status # "published" THEN FALSE
      ELSE IF job.application_deadline # Null /\ job.application_deadline < now
           THEN FALSE
      ELSE IF (job.max_applications # Unset /\ job.max_applications # 0)
                /\ job.applications_count >= job.max_applications THEN FALSE
      ELSE TRUE

\* JobApplication.objects.filter(job=job, candidate=user)
ApplicationsOf(j, u) == {a \in jobApplications : a.job = j /\ a.candidate = u}

\* a table without the unique index
UniqueTogether_Absent(j, u) == TRUE

\* unique_together = ['job', 'candidate']: the insert of a second row fails
UniqueTogether(j, u) == ApplicationsOf(j, u) = {}

IdleApply ==
  [pc |-> "idle", n |-> 0, job |-> "job1", candidate |-> "u_c", seen_count |-> 0,
   status |-> 0, body |-> ""]

\* JobApplicationCreateSerializer.is_valid(): validate_job, then validate
apply_is_valid(p, u, j) ==
  /\ applyReqs[p].pc \in {"idle", "done"}
  /\ nApplies < MaxApplies
  /\ nApplies' = nApplies + 1
  /\ LET q == [IdleApply EXCEPT !.n = nApplies + 1, !.job = j, !.candidate = u,
                                !.seen_count = jobRows[j].applications_count]
     IN  applyReqs' = [applyReqs EXCEPT ![p] =
           IF ~is_open_for_applications(j)
           THEN [q EXCEPT !.pc = "done", !.status = 400,
                          !.body = "This job is not open for applications."]
           ELSE IF ApplicationsOf(j, u) # {}
           THEN [q EXCEPT !.pc = "done", !.status = 400,
                          !.body = "You have already applied for this job."]
           ELSE [q EXCEPT !.pc = "valid"]]
  /\ UNCHANGED <<now, applyOthers, jobRows, jobApplications>>

\* serializer.save(): a JobApplication is constructed (id takes its default, a
\* new uuid; status 'applied') and JobApplication.save runs: the count is raised
\* on the job instance of the request when status is 'applied' and pk is unset,
\* then the row is inserted
apply_save(p) ==
  /\ applyReqs[p].pc = "valid"
  /\ LET q == applyReqs[p]
         instance == [pk |-> q.n, job |-> q.job, candidate |-> q.candidate,
                      status |-> "applied"]
         counted == IF instance.status = "applied" /\ instance.pk = Null
                    THEN [jobRows EXCEPT ![q.job].applications_count =
                                            q.seen_count + 1]
                    ELSE jobRows
     IN  /\ jobRows' = counted
         /\ IF UniqueTogether(q.job, q.candidate)
            THEN /\ jobApplications' = jobApplications \cup {instance}
                 /\ applyReqs' = [applyReqs EXCEPT ![p] =
                      [q EXCEPT !.pc = "done", !.status = 201, !.body = "created"]]
            ELSE /\ UNCHANGED jobApplications
                 /\ applyReqs' = [applyReqs EXCEPT ![p] =
                      [q EXCEPT !.pc = "done", !.status = 500,
                                !.body = "IntegrityError"]]
  /\ UNCHANGED <<now, applyOthers, nApplies>>

\* a stored application is loaded, its status set, and saved again: pk is set,
\* the count is left alone
JobApplication_resave(a, new_status) ==
  /\ a \in jobApplications
  /\ a.status # new_status
  /\ LET instance == [a EXCEPT !.status = new_status]
     IN  /\ jobRows' = IF instance.status = "applied" /\ instance.pk = Null
                       THEN [jobRows EXCEPT ![a.job].applications_count = @ + 1]
                       ELSE jobRows
         /\ jobApplications' = (jobApplications \ {a}) \cup {instance}
  /\ UNCHANGED <<now, applyOthers, applyReqs, nApplies>>

\* a stored application is deleted: Model.delete(), not overridden
JobApplication_delete(a) ==
  /\ a \in jobApplications
  /\ jobApplications' = jobApplications \ {a}
  /\ UNCHANGED <<now, applyOthers, jobRows, applyReqs, nApplies>>

\* the settings a job can be stored with: open with a deadline and a limit,
\* inactive, a draft, and a limit of zero
JobConfigs ==
  {[is_active |-> TRUE, status |-> "published", application_deadline |-> 1,
    max_applications |-> 1, applications_count |-> 0],
   [is_active |-> FALSE, status |-> "published", application_deadline |-> Null,
    max_applications |-> Unset, applications_count |-> 0],
   [is_active |-> TRUE, status |-> "draft", application_deadline |-> Null,
    max_applications |-> Unset, applications_count |-> 0],
   [is_active |-> TRUE, status |-> "published", application_deadline |-> Null,
    max_applications |-> 0, applications_count |-> 0]}

\* two published jobs, one of them with a deadline and a limit of one application
InitApply ==
  /\ jobRows = [j \in JobIds |->
       [is_active |-> TRUE, status |-> "published",
        application_deadline |-> IF j = "job2" THEN 1 ELSE Null,
        max_applications |-> IF j = "job2" THEN 1 ELSE Unset,
        applications_count |-> 0]]
  /\ jobApplications = {}
  /\ applyReqs = [p \in ApplyIds |-> IdleApply]
  /\ nApplies = 0

(* ========================= role-gated querysets ======================= *)

NoQuery ==
  [endpoint |-> "none", action |-> "none", user |-> "u_c", status |-> 0,
   users |-> {}, invitations |-> {}]

\* a queryset that ignores the requester
UserViewSet_get_queryset_All(u) == Users

\* UserViewSet.get_queryset: the users in the requester's queryset
UserViewSet_get_queryset(u) ==
  IF is_hr_or_admin(userRole[u]) THEN Users ELSE {x \in Users : x = u}

\* InvitationViewSet.get_queryset: the invitations in the requester's queryset
InvitationViewSet_get_queryset(u) ==
  {i \in InvIds : get_queryset(userRole[u], Email(u), invitations[i])}

\* GET users/: the list action over get_queryset()
UserViewSet_list(u) ==
  /\ lastQuery' = [endpoint |-> "users", action |-> "list", user |-> u,
                   status |-> 200, users |-> UserViewSet_get_queryset(u),
                   invitations |-> {}]
  /\ UNCHANGED <<now, queryOthers>>

\* GET users/<id>/: get_object() over get_queryset(), 404 outside it
UserViewSet_retrieve(u, target) ==
  /\ lastQuery' =
       IF target \in UserViewSet_get_queryset(u)
       THEN [endpoint |-> "users", action |-> "retrieve", user |-> u,
             status |-> 200, users |-> {target}, invitations |-> {}]
       ELSE [endpoint |-> "users", action |-> "retrieve", user |-> u,
             status |-> 404, users |-> {}, invitations |-> {}]
  /\ UNCHANGED <<now, queryOthers>>

\* GET users/me/: the requester's own record
UserViewSet_me(u) ==
  /\ lastQuery' = [endpoint |-> "users", action |-> "me", user |-> u,
                   status |-> 200, users |-> {u}, invitations |-> {}]
  /\ UNCHANGED <<now, queryOthers>>

\* GET invitations/
InvitationViewSet_list(u) ==
  /\ lastQuery' = [endpoint |-> "invitations", action |-> "list", user |-> u,
                   status |-> 200, users |-> {},
                   invitations |-> InvitationViewSet_get_queryset(u)]
  /\ UNCHANGED <<now, queryOthers>>

\* GET invitations/<id>/
InvitationViewSet_retrieve(u, i) ==
  /\ lastQuery' =
       IF i \in InvitationViewSet_get_queryset(u)
       THEN [endpoint |-> "invitations", action |-> "retrieve", user |-> u,
             status |-> 200, users |-> {}, invitations |-> {i}]
       ELSE [endpoint |-> "invitations", action |-> "retrieve", user |-> u,
             status |-> 404, users |-> {}, invitations |-> {}]
  /\ UNCHANGED <<now, queryOthers>>

InitQuery == lastQuery = NoQuery

(* ================== update_status, concurrent callers ================== *)

\* concurrent update_status calls, over the whole behaviour
MaxUpdates == 2

\* the calls that can be in flight together
UpdIds == {"w1", "w2"}

\* the new_status arguments of the concurrent calls
RaceStatuses == {"screening", "under_review", "rejected"}

IdleUpdate ==
  [pc |-> "idle", app |-> "app1",
   self |-> [status |-> "pending", reviewed_at |-> Null, hr_notes |-> <<>>],
   old_status |-> "pending", new_status |-> "pending", notes |-> <<>>,
   loaded |-> "pending", overwrote |-> "pending", row |-> 0]

\* the caller loads the application: its own in-memory instance
update_status_load(w, a) ==
  /\ updReqs[w].pc \in {"idle", "done"}
  /\ nUpdates < MaxUpdates
  /\ nUpdates' = nUpdates + 1
  /\ updReqs' = [updReqs EXCEPT ![w] =
       [IdleUpdate EXCEPT !.pc = "loaded", !.app = a, !.self = applications[a],
                          !.loaded = applications[a].status]]
  /\ UNCHANGED <<now, raceOthers>>

\* a call that reads the row again before it assigns
update_status_save_Reread(w, new_status, notes) ==
  /\ updReqs[w].pc = "loaded"
  /\ LET q == updReqs[w]
         after == Mutated(applications[q.app], new_status, notes, now)
     IN  /\ applications' = [applications EXCEPT ![q.app] = after]
         /\ updReqs' = [updReqs EXCEPT ![w] =
              [q EXCEPT !.pc = "saved", !.self = after,
                        !.old_status = applications[q.app].status, !.new_status = new_status,
                        !.notes = notes,
                        !.overwrote = applications[q.app].status]]
  /\ UNCHANGED <<now, history, calls, lastArg, lastCall, invVars, resetVars,
                 laterVarsButRace, nUpdates>>

\* update_status up to self.save(): old_status is read from the instance, the
\* fields are assigned on it, and save() writes every field of the instance
update_status_save(w, new_status, notes) ==
  /\ updReqs[w].pc = "loaded"
  /\ LET q == updReqs[w]
         after == Mutated(q.self, new_status, notes, now)
     IN  /\ applications' = [applications EXCEPT ![q.app] = after]
         /\ updReqs' = [updReqs EXCEPT ![w] =
              [q EXCEPT !.pc = "saved", !.self = after,
                        !.old_status = q.self.status, !.new_status = new_status,
                        !.notes = notes,
                        !.overwrote = applications[q.app].status]]
  /\ UNCHANGED <<now, history, calls, lastArg, lastCall, invVars, resetVars,
                 laterVarsButRace, nUpdates>>

\* update_status after self.save(): ApplicationStatusHistory.objects.create
update_status_create(w) ==
  /\ updReqs[w].pc = "saved"
  /\ LET q == updReqs[w]
     IN  /\ history' = Append(history,
                              HistoryRow(q.app, q.old_status, q.new_status, q.notes))
         /\ updReqs' = [updReqs EXCEPT ![w] =
              [q EXCEPT !.pc = "done", !.row = Len(history) + 1]]
  /\ UNCHANGED <<now, applications, calls, lastArg, lastCall, invVars, resetVars,
                 laterVarsButRace, nUpdates>>

InitRace ==
  /\ updReqs = [w \in UpdIds |-> IdleUpdate]
  /\ nUpdates = 0

(* ====================== screening configurations ====================== *)

\* save calls, over the whole behaviour
MaxSaves == 3

ConfigIds == {"k1", "k2"}

\* the save calls that can be in flight together
SaveIds == {"v1", "v2"}

IdleSave == [pc |-> "idle", config |-> "k1", is_default |-> FALSE]

\* ScreeningConfiguration.save, first statement: with is_default set on the
\* instance, every other row is updated to is_default = False
ScreeningConfiguration_save_update(v, c, is_default) ==
  /\ saveReqs[v].pc \in {"idle", "done"}
  /\ nSaves < MaxSaves
  /\ nSaves' = nSaves + 1
  /\ saveReqs' = [saveReqs EXCEPT ![v] =
       [pc |-> "updated", config |-> c, is_default |-> is_default]]
  /\ configRows' =
       IF is_default
       THEN [k \in ConfigIds |->
               IF k # c /\ configRows[k].exists
               THEN [configRows[k] EXCEPT !.is_default = FALSE]
               ELSE configRows[k]]
       ELSE configRows
  /\ UNCHANGED <<now, configOthers>>

\* ScreeningConfiguration.save, second statement: super().save() writes the row
ScreeningConfiguration_save_super(v) ==
  /\ saveReqs[v].pc = "updated"
  /\ configRows' = [configRows EXCEPT ![saveReqs[v].config] =
       [exists |-> TRUE, is_default |-> saveReqs[v].is_default]]
  /\ saveReqs' = [saveReqs EXCEPT ![v].pc = "done"]
  /\ UNCHANGED <<now, configOthers, nSaves>>

\* an empty table (is_default defaults to False)
InitConfig ==
  /\ configRows = [k \in ConfigIds |-> [exists |-> FALSE, is_default |-> FALSE]]
  /\ saveReqs = [v \in SaveIds |-> IdleSave]
  /\ nSaves = 0

(* =================== token-confirmation endpoints ===================== *)

\* reset_password and verify_email requests, over the whole behaviour
MaxTokenOps == 2

\* tokens issued, over the whole behaviour
MaxTokens == 2

\* the addresses password resets are requested for here
TokenEmails == {"hr@x", "c@x"}

\* a token string that is not a uuid (token is a CharField)
MalformedToken == -2

\* the new passwords submitted
NewPasswords == {"pw1", "pw2"}

\* the tokens submitted: every uuid issued so far, one never issued, one malformed
TokenInputs == (1..nextToken) \cup {MalformedToken}

\* User.objects.get(password_reset_token=token)
UsersWithResetToken(token) == {u \in Users : resetToken[u] = token}

\* User.objects.get(email_verification_token=token)
UsersWithVerifyToken(token) == {u \in Users : verifyToken[u] = token}

TokenOp(op, token, status, body) ==
  [n |-> lastTokenOp.n + 1, op |-> op, token |-> token, status |-> status,
   body |-> body]

\* UserViewSet._send_verification_email, as register calls it for the new user
send_verification_email(u) ==
  /\ nextToken <= MaxTokens
  /\ verifyToken' = [verifyToken EXCEPT ![u] = nextToken]
  /\ verifyExpires' = [verifyExpires EXCEPT ![u] = now + EMAIL_VERIFICATION_HOURS]
  /\ nextToken' = nextToken + 1
  /\ UNCHANGED <<now, tokenOthersButReset, resetToken, resetExpires, authUsers,
                 observed, nResets, password, isVerified, usedTokens, lastTokenOp>>

\* a reset that leaves the token in place
reset_password_KeepToken(token, new_password) ==
  /\ lastTokenOp.n < MaxTokenOps
  /\ IF token = MalformedToken
     THEN /\ lastTokenOp' = TokenOp("reset_password", token, 500, "ValidationError")
          /\ UNCHANGED <<password, resetToken, resetExpires, usedTokens>>
     ELSE IF UsersWithResetToken(token) = {}
     THEN /\ lastTokenOp' = TokenOp("reset_password", token, 400, "Invalid reset token")
          /\ UNCHANGED <<password, resetToken, resetExpires, usedTokens>>
     ELSE LET user == CHOOSE u \in UsersWithResetToken(token) : TRUE
          IN  IF resetExpires[user] # Null /\ resetExpires[user] > now
              THEN /\ password' = [password EXCEPT ![user] = new_password]
                   /\ usedTokens' = usedTokens \cup {token}
                   /\ lastTokenOp' = TokenOp("reset_password", token, 200,
                                             "Password reset successfully")
                   /\ UNCHANGED <<resetToken, resetExpires>>
              ELSE /\ lastTokenOp' = TokenOp("reset_password", token, 400,
                                             "Reset token expired")
                   /\ UNCHANGED <<password, resetToken, resetExpires, usedTokens>>
  /\ UNCHANGED <<now, tokenOthersButReset, nextToken, authUsers, observed, nResets,
                 isVerified, verifyToken, verifyExpires>>

\* UserViewSet.reset_password with matching passwords
reset_password(token, new_password) ==
  /\ lastTokenOp.n < MaxTokenOps
  /\ IF token = MalformedToken
     THEN /\ lastTokenOp' = TokenOp("reset_password", token, 500, "ValidationError")
          /\ UNCHANGED <<password, resetToken, resetExpires, usedTokens>>
     ELSE IF UsersWithResetToken(token) = {}
     THEN /\ lastTokenOp' = TokenOp("reset_password", token, 400, "Invalid reset token")
          /\ UNCHANGED <<password, resetToken, resetExpires, usedTokens>>
     ELSE LET user == CHOOSE u \in UsersWithResetToken(token) : TRUE
          IN  IF resetExpires[user] # Null /\ resetExpires[user] > now
              THEN /\ password' = [password EXCEPT ![user] = new_password]
                   /\ resetToken' = [resetToken EXCEPT ![user] = Null]
                   /\ resetExpires' = [resetExpires EXCEPT ![user] = Null]
                   /\ usedTokens' = usedTokens \cup {token}
                   /\ lastTokenOp' = TokenOp("reset_password", token, 200,
                                             "Password reset successfully")
              ELSE /\ lastTokenOp' = TokenOp("reset_password", token, 400,
                                             "Reset token expired")
                   /\ UNCHANGED <<password, resetToken, resetExpires, usedTokens>>
  /\ UNCHANGED <<now, tokenOthersButReset, nextToken, authUsers, observed, nResets,
                 isVerified, verifyToken, verifyExpires>>

\* UserViewSet.verify_email
verify_email(token) ==
  /\ lastTokenOp.n < MaxTokenOps
  /\ IF token = MalformedToken
     THEN /\ lastTokenOp' = TokenOp("verify_email", token, 500, "ValidationError")
          /\ UNCHANGED <<isVerified, verifyToken, verifyExpires, usedTokens>>
     ELSE IF UsersWithVerifyToken(token) = {}
     THEN /\ lastTokenOp' = TokenOp("verify_email", token, 400,
                                    "Invalid verification token")
          /\ UNCHANGED <<isVerified, verifyToken, verifyExpires, usedTokens>>
     ELSE LET user == CHOOSE u \in UsersWithVerifyToken(token) : TRUE
          IN  IF verifyExpires[user] # Null /\ verifyExpires[user] > now
              THEN /\ isVerified' = [isVerified EXCEPT ![user] = TRUE]
                   /\ verifyToken' = [verifyToken EXCEPT ![user] = Null]
                   /\ verifyExpires' = [verifyExpires EXCEPT ![user] = Null]
                   /\ usedTokens' = usedTokens \cup {token}
                   /\ lastTokenOp' = TokenOp("verify_email", token, 200,
                                             "Email verified successfully")
              ELSE /\ lastTokenOp' = TokenOp("verify_email", token, 400,
                                             "Verification token expired")
                   /\ UNCHANGED <<isVerified, verifyToken, verifyExpires, usedTokens>>
  /\ UNCHANGED <<now, tokenOthersButReset, resetVars, password>>

\* the lifetime of a token passes
ElapseTokenLifetime ==
  /\ now <= MaxTime
  /\ now' = now + PASSWORD_RESET_HOURS
  /\ UNCHANGED <<tokenOthers, tokenVars>>

InitToken ==
  /\ password = [u \in Users |-> "pw0"]
  /\ isVerified = [u \in Users |-> FALSE]
  /\ verifyToken = [u \in Users |-> Null]
  /\ verifyExpires = [u \in Users |-> Null]
  /\ usedTokens = {}
  /\ lastTokenOp = [n |-> 0, op |-> "none", token |-> Null, status |-> 0,
                    body |-> ""]

(* ============================ specifications ========================== *)

\* the stores of the workflow, invitation and reset subsystems
InitCore ==
  /\ now = 1
  /\ applications = [a \in Apps |->
                       [status |-> "pending", reviewed_at |-> Null, hr_notes |-> <<>>]]
  /\ history = <<>>
  /\ calls = [a \in Apps |-> 0]
  /\ lastArg = [a \in Apps |-> "pending"]
  /\ lastCall = [app |-> "app1", outcome |-> "none",
                 before |-> [status |-> "pending", reviewed_at |-> Null,
                             hr_notes |-> <<>>],
                 rowsBefore |-> <<>>]
  /\ userRole = [u \in Users |-> IF u = "u_hr" THEN "hr" ELSE "candidate"]
  /\ invitations = [i \in InvIds |-> NoInvitation]
  /\ reqs = [r \in ReqIds |-> IdleRequest]
  /\ nRequests = 0
  /\ acceptRuns = [i \in InvIds |-> 0]
  /\ grantees = [i \in InvIds |-> {}]
  /\ resetToken = [u \in Users |-> Null]
  /\ resetExpires = [u \in Users |-> Null]
  /\ nextToken = 1
  /\ authUsers = [e \in AuthEmails |->
                    [exists |-> e # "n@x", is_active |-> e = "hr@x"]]
  /\ observed = {}
  /\ nResets = 0

\* the tables of the subsystems whose inputs are fixed
InitLater == InitRegistration /\ InitChat /\ InitPosting /\ InitApply /\ InitQuery /\ InitRace /\ InitConfig /\ InitToken

Init == InitCore /\ InitLater /\ InitProfile

\* any user: every combination of filled and empty fields, with or without a profile
InitAnyProfile ==
  /\ InitCore /\ InitLater
  /\ profileUser \in {u \in ProfileUsers : ~u.has_profile => u.profile = NoProfile}
  /\ completion = [called |-> FALSE, value |-> 0, total_fields |-> 0]

\* job2 stored with any of the settings
InitAnyJob ==
  /\ InitCore /\ InitProfile
  /\ InitRegistration /\ InitChat /\ InitPosting /\ InitQuery /\ InitRace
  /\ InitConfig /\ InitToken
  /\ jobRows \in {[j \in JobIds |->
                     IF j = "job2" THEN c
                     ELSE [is_active |-> TRUE, status |-> "published",
                           application_deadline |-> Null,
                           max_applications |-> Unset, applications_count |-> 0]] :
                  c \in JobConfigs}
  /\ jobApplications = {}
  /\ applyReqs = [p \in ApplyIds |-> IdleApply]
  /\ nApplies = 0

\* the application status workflow, calls one after another, the store reliable
Next ==
  \/ \E a \in Apps, s \in ApplicationStatus, n \in NotesArgs : update_status(a, s, n)
  \/ Tick

Spec == Init /\ [][Next]_vars

\* the same workflow over a store whose writes can fail
NextFaults ==
  \/ \E a \in Apps, s \in ApplicationStatus, n \in NotesArgs : update_status(a, s, n)
  \/ \E a \in Apps, s \in ApplicationStatus, n \in NotesArgs :
       update_status_save_raises(a, s, n)
  \/ \E a \in Apps, s \in ApplicationStatus, n \in NotesArgs :
       update_status_create_raises(a, s, n)
  \/ Tick

SpecFaults == Init /\ [][NextFaults]_vars

\* the same workflow, sequential, with notes that carry white space
NextNotes ==
  \/ \E a \in Apps, st \in NotesStatuses, n \in NotesArgsWide : update_status(a, st, n)
  \/ Tick

SpecNotes == Init /\ [][NextNotes]_vars

\* invitations: creation, and accept requests running concurrently
NextInvitation ==
  \/ \E u \in Users, i \in InvIds, e \in InviteEmails, ro \in INVITATION_TYPES,
        t \in 1..MaxTime : perform_create(u, i, e, ro, t)
  \/ \E r \in ReqIds, u \in Users, i \in InvIds : accept_authenticate(r, u, i)
  \/ \E r \in ReqIds : accept_get_object(r)
  \/ \E r \in ReqIds : accept_checks(r)
  \/ \E r \in ReqIds : Invitation_accept_save(r)
  \/ \E r \in ReqIds : Invitation_accept_user_save(r)
  \/ Tick

SpecInvitation == Init /\ [][NextInvitation]_vars

\* the two password-reset request endpoints
NextReset ==
  \/ \E e \in ResetEmails : request_password_reset(e)
  \/ \E e \in ResetEmails : PasswordResetRequestView_post(e)
  \/ Tick

SpecReset == Init /\ [][NextReset]_vars

\* registration requests at both endpoints, running concurrently
NextRegistration ==
  \/ \E g \in RegIds, ep \in RegEndpoints, e \in RegEmails, ro \in RegRoles :
       register_is_valid(g, ep, e, ro)
  \/ \E g \in RegIds : register_save(g)

SpecRegistration == Init /\ [][NextRegistration]_vars

\* screening sessions: creation, progress, reads, completion, abandonment
NextChat ==
  \/ \E s \in SessionIds, t \in TotalQuestions : ChatSession_create(s, t)
  \/ \E s \in SessionIds : answer_question(s)
  \/ \E s \in SessionIds : progress_percentage_read(s)
  \/ \E s \in SessionIds : complete_session(s)
  \/ \E s \in SessionIds : abandon_session(s)
  \/ \E s \in SessionIds : ScreeningResult_create(s)
  \/ \E d \in ElapseSeconds : Elapse(d)

SpecChat == Init /\ [][NextChat]_vars

\* calculate_profile_completion applied to any user
NextProfile == calculate_profile_completion

SpecProfile == InitAnyProfile /\ [][NextProfile]_vars

\* publish() calls on the job postings, one after another
NextPosting ==
  \/ \E j \in PostingIds : publish(j)
  \/ Tick

SpecPosting == Init /\ [][NextPosting]_vars

\* applications of the jobs app: concurrent create requests, re-saves, deletions
NextApply ==
  \/ \E p \in ApplyIds, u \in Users, j \in JobIds : apply_is_valid(p, u, j)
  \/ \E p \in ApplyIds : apply_save(p)
  \/ \E a \in jobApplications, st \in ResaveStatuses : JobApplication_resave(a, st)
  \/ \E a \in jobApplications : JobApplication_delete(a)
  \/ Tick

SpecApply == Init /\ [][NextApply]_vars

\* concurrent create requests on jobs of any settings
NextOpen ==
  \/ \E p \in ApplyIds, u \in Users, j \in JobIds : apply_is_valid(p, u, j)
  \/ \E p \in ApplyIds : apply_save(p)
  \/ Tick

SpecOpen == InitAnyJob /\ [][NextOpen]_vars

\* invitations are created; users and invitations are listed and retrieved
NextQuery ==
  \/ \E u \in Users, i \in InvIds, e \in InviteEmails, ro \in INVITATION_TYPES,
        t \in 1..MaxTime : perform_create(u, i, e, ro, t)
  \/ \E u \in Users : UserViewSet_list(u)
  \/ \E u \in Users, target \in Users : UserViewSet_retrieve(u, target)
  \/ \E u \in Users : UserViewSet_me(u)
  \/ \E u \in Users : InvitationViewSet_list(u)
  \/ \E u \in Users, i \in InvIds : InvitationViewSet_retrieve(u, i)

SpecQuery == Init /\ [][NextQuery]_vars

\* update_status calls on instances loaded independently of each other
NextRace ==
  \/ \E w \in UpdIds, a \in Apps : update_status_load(w, a)
  \/ \E w \in UpdIds, st \in RaceStatuses, n \in NotesArgs :
       update_status_save(w, st, n)
  \/ \E w \in UpdIds : update_status_create(w)
  \/ Tick

SpecRace == Init /\ [][NextRace]_vars

\* screening configurations saved by concurrent callers
NextConfig ==
  \/ \E v \in SaveIds, c \in ConfigIds, d \in BOOLEAN :
       ScreeningConfiguration_save_update(v, c, d)
  \/ \E v \in SaveIds : ScreeningConfiguration_save_super(v)

SpecConfig == Init /\ [][NextConfig]_vars

\* tokens are issued, submitted and left to expire, one request after another
NextToken ==
  \/ \E e \in TokenEmails : nextToken <= MaxTokens /\ request_password_reset(e)
  \/ \E u \in Users : send_verification_email(u)
  \/ \E t \in TokenInputs, pw \in NewPasswords : reset_password(t, pw)
  \/ \E t \in TokenInputs : verify_email(t)
  \/ Tick
  \/ ElapseTokenLifetime

SpecToken == Init /\ [][NextToken]_vars

(* ================= properties of the application workflow ============= *)

\* the history rows of one application, oldest first
RowsOf(a) == SelectSeq(history, LAMBDA h : h.application = a)

\* C1: after N update_status calls on an application (N >= 0, any arguments, one
\* call after another) the application has exactly N history rows and its stored
\* status is the new_status of the last call.
C1_RowsAndFinalStatus ==
  \A a \in Apps :
    /\ Len(RowsOf(a)) = calls[a]
    /\ calls[a] > 0 => applications[a].status = lastArg[a]

C1_Witness ==
  /\ calls["app1"] = 2
  /\ Len(RowsOf("app1")) = 2
  /\ applications["app1"].status = "hired"

\* every step either leaves the history alone or appends one row old -> new for
\* the application that was called, old being the status stored before the step
C2_AppendOnlyStep ==
  \/ /\ history' = history
     /\ calls' = calls
  \/ \E a \in Apps :
       /\ calls' = [calls EXCEPT ![a] = @ + 1]
       /\ Len(history') = Len(history) + 1
       /\ SubSeq(history', 1, Len(history)) = history
       /\ history'[Len(history')].application = a
       /\ history'[Len(history')].old_status = applications[a].status
       /\ history'[Len(history')].new_status = lastArg'[a]

\* the rows of each application chain: the first starts at the initial status and
\* each later one starts where the one before it ended
C2_Chained ==
  \A a \in Apps :
    LET rows == RowsOf(a)
    IN \A k \in 1..Len(rows) :
         rows[k].old_status = IF k = 1 THEN "pending" ELSE rows[k - 1].new_status

\* C2: the status history is an append-only log of old -> new: each call adds one
\* row (old = the status held just before the call, new = the argument), no row is
\* ever changed or removed, and for sequential calls the rows of an application
\* chain from its initial status.
C2_AppendOnlyLog == [][C2_AppendOnlyStep]_vars /\ []C2_Chained

C2_Witness ==
  /\ Len(RowsOf("app1")) = 2
  /\ RowsOf("app1")[1].new_status = "hired"
  /\ RowsOf("app1")[2].old_status = "hired"
  /\ Len(RowsOf("app2")) = 0

\* reviewed_at is null exactly while no call has entered a reviewed status
C3_NullUntilReviewed ==
  \A a \in Apps :
    (applications[a].reviewed_at = Null)
      <=> (\A k \in 1..Len(history) :
             history[k].application = a => history[k].new_status \notin ReviewedStatuses)

\* a stamp, once there, stays; a stamp appears only in a call into a reviewed status
C3_StampStep ==
  \A a \in Apps :
    /\ applications[a].reviewed_at # Null
         => applications'[a].reviewed_at = applications[a].reviewed_at
    /\ (applications[a].reviewed_at = Null /\ applications'[a].reviewed_at # Null)
         => /\ applications'[a].reviewed_at = now
            /\ calls'[a] = calls[a] + 1
            /\ lastArg'[a] \in ReviewedStatuses

\* C3: reviewed_at is null until the first call whose new_status is under_review
\* or shortlisted, is set by that call, and no later call changes it.
C3_ReviewedAtSetOnce == []C3_NullUntilReviewed /\ [][C3_StampStep]_vars

C3_Witness ==
  /\ now = 2
  /\ applications["app1"].reviewed_at = 1
  /\ Len(RowsOf("app1")) = 2
  /\ RowsOf("app1")[1].new_status = "under_review"
  /\ RowsOf("app1")[2].new_status = "shortlisted"

\* C4: update_status validates no transition: from every stored status every
\* status of the enum is accepted, stored, and logged with one history row.
C4_AnyTransitionAccepted ==
  \A a \in Apps, s \in ApplicationStatus :
    CallsMade < MaxCalls =>
      ENABLED (/\ update_status(a, s, <<>>)
               /\ applications'[a].status = s
               /\ history' = Append(history,
                                    [application |-> a,
                                     old_status |-> applications[a].status,
                                     new_status |-> s, notes |-> <<>>]))

C4_Witness ==
  /\ applications["app2"].status = "pending"
  /\ Len(RowsOf("app2")) = 2
  /\ RowsOf("app2")[1].new_status = "hired"
  /\ RowsOf("app2")[2].old_status = "hired"
  /\ RowsOf("app2")[2].new_status = "pending"

\* C5: a persistence error inside update_status leaves the stored application and
\* the history as they were before the call.
C5_RolledBackOnError ==
  lastCall.outcome = "raised" =>
    /\ applications[lastCall.app] = lastCall.before
    /\ history = lastCall.rowsBefore

(* ================= properties of the invitation lifecycle ============= *)

\* C6: over any interleaving of accept requests, Invitation.accept runs at most
\* once per invitation and at most one user's role is set from it.
C6_SingleAccept ==
  \A i \in InvIds : acceptRuns[i] <= 1 /\ Cardinality(grantees[i]) <= 1

\* a request that found its invitation expired has ended with a 400 and has not
\* entered Invitation.accept; a request past the guards can always run it
C7_ExpiredIsRejected ==
  \A r \in ReqIds :
    /\ (reqs[r].checked_at # Null /\ reqs[r].checked_at > reqs[r].snap.expires_at)
         => /\ reqs[r].pc = "done"
            /\ reqs[r].response = [status |-> 400, body |-> "Invitation has expired"]
    /\ reqs[r].pc = "accepting" => ENABLED Invitation_accept_save(r)

\* the step of a request whose loaded invitation is expired writes nothing
C7_ExpiredStep ==
  \A r \in ReqIds :
    (reqs[r].pc = "loaded" /\ now > reqs[r].snap.expires_at /\ reqs'[r] # reqs[r])
      => /\ invitations' = invitations
         /\ userRole' = userRole
         /\ acceptRuns' = acceptRuns
         /\ reqs'[r].response.status = 400

\* C7: the accept endpoint enforces expiry: a request on an invitation whose
\* expires_at is earlier than the current time gets a 400, Invitation.accept is
\* not called and the invitation and the user's role stay as they were; the model
\* method itself checks no expiry.
C7_ExpiryEnforcedByView == []C7_ExpiredIsRejected /\ [][C7_ExpiredStep]_vars

C7_Witness ==
  \E r \in ReqIds :
    /\ reqs[r].response.body = "Invitation has expired"
    /\ invitations[reqs[r].pk].exists
    /\ ~invitations[reqs[r].pk].is_accepted
    /\ userRole[reqs[r].user] # invitations[reqs[r].pk].role

\* a request is told "expired" exactly when the clock was strictly past expires_at
\* at its check; a request that arrived after the acceptance never reaches
\* Invitation.accept and ends with an error
C8_ExpiredAndTerminal ==
  \A r \in ReqIds :
    /\ (reqs[r].checked_at # Null)
         => ((reqs[r].response.body = "Invitation has expired")
               <=> (reqs[r].checked_at > reqs[r].snap.expires_at))
    /\ reqs[r].late
         => /\ reqs[r].pc \notin {"accepting", "saved"}
            /\ reqs[r].pc = "done" => reqs[r].response.status \in {400, 404}

\* no step clears is_accepted or rewrites expires_at, and a step of a request that
\* arrived after the acceptance leaves every invitation and every role alone
C8_Step ==
  /\ \A i \in InvIds :
       /\ invitations[i].is_accepted => invitations'[i].is_accepted
       /\ invitations[i].exists
            => /\ invitations'[i].exists
               /\ invitations'[i].expires_at = invitations[i].expires_at
  /\ \A r \in ReqIds :
       (reqs[r].late /\ reqs[r].pc \notin {"idle", "done"} /\ reqs'[r] # reqs[r])
         => invitations' = invitations /\ userRole' = userRole

C9_WritesTogether ==
  \A r \in ReqIds :
    (reqs[r].pc = "saved" \/ reqs[r].response.status = 200)
      => /\ invitations[reqs[r].pk].is_accepted
         /\ userRole[reqs[r].user] = invitations[reqs[r].pk].role

(* ============== properties of the reset-request endpoints ============= *)

\* C10: at each reset-request endpoint the response for an address with an account
\* and the response for an address without one are the same.
C10_SameResponse ==
  \A o1 \in observed, o2 \in observed :
    (o1.endpoint = o2.endpoint /\ o1.had_account /\ ~o2.had_account)
      => o1.status = o2.status /\ o1.body = o2.body

\* C11: no two stored users of one table have emails that are equal ignoring case
C11_NoCaseDuplicates ==
  \A ep \in RegEndpoints : \A r1, r2 \in registered[ep] :
    Lower(r1.email) = Lower(r2.email) => r1 = r2

(* ================ properties of the screening sessions ================ *)

\* C12: the value read from progress_percentage is 0 for a session without
\* questions and questions_answered * 100 / total_questions otherwise (40 for
\* 4 of 10); its denominator is never zero.
C12_ProgressValue ==
  chatOp.name = "progress_percentage" =>
    LET sess == sessions[chatOp.session]
        v == chatOp.value
    IN  /\ v.den # 0
        /\ sess.total_questions = 0 => v.num = 0
        /\ sess.total_questions # 0 =>
             v.num * sess.total_questions = sess.questions_answered * 100 * v.den
        /\ (sess.total_questions = 10 /\ sess.questions_answered = 4) =>
             v.num = 40 * v.den

\* C12: the read changes no field of any session and creates no row.
C12_PureRead ==
  [][(chatOp'.n # chatOp.n /\ chatOp'.name = "progress_percentage")
       => sessions' = sessions /\ resultCount' = resultCount]_vars

\* C12: progress_percentage is a guarded quotient and a pure read.
C12_Progress == []C12_ProgressValue /\ C12_PureRead

C12_Witness ==
  /\ chatOp.name = "progress_percentage"
  /\ sessions[chatOp.session].total_questions = 10
  /\ sessions[chatOp.session].questions_answered = 4
  /\ chatOp.value.num = 40 * chatOp.value.den

\* C13: a complete_session call leaves the session COMPLETED, completed_at at the
\* current time and duration_minutes at the whole minutes between started_at and
\* completed_at.
C13_CompleteStep ==
  [][\A s \in SessionIds :
       (chatOp'.n # chatOp.n /\ chatOp'.name = "complete_session"
          /\ chatOp'.session = s)
         => /\ sessions'[s].status = "completed"
            /\ sessions'[s].completed_at = chatClock
            /\ sessions'[s].started_at = sessions[s].started_at
            /\ sessions'[s].duration_minutes * 60 <= chatClock - sessions[s].started_at
            /\ chatClock - sessions[s].started_at
                 < sessions'[s].duration_minutes * 60 + 60]_vars

\* C13: the stored duration is the elapsed time truncated to minutes: 15 after a
\* quarter of an hour, 0 within the first minute.
C13_Truncated ==
  \A s \in SessionIds :
    sessions[s].completed_at # Null =>
      LET secs == sessions[s].completed_at - sessions[s].started_at
      IN  /\ secs = 900 => sessions[s].duration_minutes = 15
          /\ secs < 60 => sessions[s].duration_minutes = 0
          /\ sessions[s].duration_minutes * 60 <= secs
          /\ secs < sessions[s].duration_minutes * 60 + 60

\* C13: complete_session stamps the completion and derives the truncated duration.
C13_Completion == []C13_Truncated /\ C13_CompleteStep

C13_Witness ==
  \E s \in SessionIds :
    /\ chatOp.name = "complete_session"
    /\ sessions[s].status = "completed"
    /\ sessions[s].completed_at - sessions[s].started_at = 900
    /\ sessions[s].duration_minutes = 15

\* C14: once a session is COMPLETED, ABANDONED or ERROR, no call changes its
\* status, completed_at or duration_minutes.
C14_TerminalIsFinal ==
  [][\A s \in SessionIds :
       (sessions[s].exists /\ sessions[s].status \in {"completed", "abandoned", "error"})
         => /\ sessions'[s].status = sessions[s].status
            /\ sessions'[s].completed_at = sessions[s].completed_at
            /\ sessions'[s].duration_minutes = sessions[s].duration_minutes]_vars

C16_ResultOnlyForCompleted ==
  \A s \in SessionIds :
    /\ resultCount[s] <= 1
    /\ resultCount[s] > 0 => sessions[s].status = "completed"

(* ================== properties of profile completion ================== *)

\* the number of truthy entries among the nine fields of the checklist
C17_Truthy(u) ==
  Cardinality({f \in {"first_name", "last_name", "phone_number"} : u[f] # ""})
  + (IF u.date_of_birth # Null THEN 1 ELSE 0)
  + Cardinality({f \in {"bio", "linkedin_url", "resume"} : u.profile[f] # ""})
  + (IF u.profile.years_of_experience # Null THEN 1 ELSE 0)
  + (IF u.has_skill THEN 1 ELSE 0)

\* v (in hundredths) is 100 * k / n rounded to two decimals
C17_IsRounded(v, k, n) ==
  /\ 2 * v * n - 20000 * k <= n
  /\ 20000 * k - 2 * v * n <= n

\* C17 as stated: for every user the result is round(100 * k / 9, 2), k the number
\* of truthy entries of the nine-entry checklist.
C17_NineForEveryUser ==
  completion.called =>
    /\ completion.total_fields = 9
    /\ C17_IsRounded(completion.value, C17_Truthy(profileUser), 9)

\* C17 amended: the checklist has 9 entries for a user with a profile and 5 (the
\* four personal fields and has-any-skill) for a user without one; the result is
\* round(100 * k / n, 2) over that checklist, 0 when k = 0, 100.0 when k = n.
C17_ChecklistValue ==
  completion.called =>
    LET n == IF profileUser.has_profile THEN 9 ELSE 5
        k == C17_Truthy(profileUser)
    IN  /\ completion.total_fields = n
        /\ C17_IsRounded(completion.value, k, n)
        /\ k = 0 => completion.value = 0
        /\ k = n => completion.value = 10000

\* C17: the call stores nothing.
C17_StoresNothing == [][profileUser' = profileUser]_vars

\* C17 amended, with the purity of the call.
C17_Completion == []C17_ChecklistValue /\ C17_StoresNothing

C17_Witness ==
  /\ completion.called
  /\ ~profileUser.has_profile
  /\ completion.total_fields = 5
  /\ C17_Truthy(profileUser) = 5
  /\ completion.value = 10000

(* ==================== properties of the job postings ================== *)

\* C18: a publish() call on a job whose published_at is null sets it to the
\* current time with one write; on a job already published it changes nothing
\* and writes nothing.
C18_PublishStep ==
  [][\A j \in PostingIds :
       publishCalls'[j] # publishCalls[j] =>
         IF published_at[j] = Null
         THEN published_at'[j] = now /\ jobWrites'[j] = jobWrites[j] + 1
         ELSE published_at'[j] = published_at[j] /\ jobWrites'[j] = jobWrites[j]]_vars

\* C18: published_at, once set, keeps its value.
C18_SetOnce ==
  [][\A j \in PostingIds :
       published_at[j] # Null => published_at'[j] = published_at[j]]_vars

\* C18: published_at is set once, by the first publish() call.
C18_PublishedOnce == C18_PublishStep /\ C18_SetOnce

C18_Witness ==
  \E j \in PostingIds :
    /\ publishCalls[j] >= 2
    /\ lastPublish = [job |-> j, at |-> now]
    /\ published_at[j] # Null
    /\ published_at[j] < now
    /\ jobWrites[j] = 1

(* ============== properties of the applications of the jobs app ======== *)

\* C19: a job's applications_count equals the number of JobApplication rows that
\* reference the job.
C19_CountMirrorsRows ==
  \A j \in JobIds :
    jobRows[j].applications_count = Cardinality({a \in jobApplications : a.job = j})

\* C20: there is at most one application per (job, candidate) pair.
C20_OnePerPair ==
  \A a1, a2 \in jobApplications :
    (a1.job = a2.job /\ a1.candidate = a2.candidate) => a1 = a2

\* C20: a create request that ends while its candidate has an application to its
\* job is rejected, by the validation error or by the unique index, and leaves
\* the applications and the job's count as they were.
C20_SecondRejected ==
  [][\A p \in ApplyIds :
       (applyReqs'[p] # applyReqs[p] /\ applyReqs'[p].pc = "done"
          /\ ApplicationsOf(applyReqs'[p].job, applyReqs'[p].candidate) # {})
         => /\ applyReqs'[p].status \in {400, 500}
            /\ is_open_for_applications(applyReqs'[p].job) =>
                 applyReqs'[p].body \in {"You have already applied for this job.",
                                        "IntegrityError"}
            /\ jobApplications' = jobApplications
            /\ jobRows' = jobRows]_vars

\* C20: one application per (job, candidate), in every interleaving of requests.
C20_OneApplication == []C20_OnePerPair /\ C20_SecondRejected

C20_Witness ==
  \E p \in ApplyIds :
    /\ applyReqs[p].status = 500
    /\ applyReqs[p].body = "IntegrityError"
    /\ Cardinality(ApplicationsOf(applyReqs[p].job, applyReqs[p].candidate)) = 1

(* ================= properties of the role-gated querysets ============= *)

C22_RowFromOwnCopy ==
  \A w \in UpdIds :
    /\ updReqs[w].pc = "done" =>
         /\ history[updReqs[w].row].application = updReqs[w].app
         /\ history[updReqs[w].row].old_status = updReqs[w].loaded
         /\ history[updReqs[w].row].new_status = updReqs[w].new_status
    /\ updReqs[w].pc \in {"saved", "done"} =>
         updReqs[w].self.status = updReqs[w].new_status

\* C22: two interleaved calls reach a state in which a history row's old_status is
\* not the status its call overwrote, and the stored status is not the new_status
\* of the latest history row.
C22_Witness ==
  \E w \in UpdIds :
    /\ updReqs[w].pc = "done"
    /\ history[updReqs[w].row].old_status # updReqs[w].overwrote
    /\ applications[updReqs[w].app].status # history[Len(history)].new_status
    /\ history[Len(history)].application = updReqs[w].app

(* ================= properties of the open-job validation ============== *)

\* the job is closed as the claim words it: inactive, not published, past its
\* deadline, or max_applications set and reached
C23_Closed(j) ==
  \/ ~jobRows[j].is_active
  \/ jobRows[j].status # "published"
  \/ jobRows[j].application_deadline # Null /\ jobRows[j].application_deadline < now
  \/ jobRows[j].max_applications # Unset
       /\ jobRows[j].applications_count >= jobRows[j].max_applications

\* C23: a create request for a closed job is rejected by validation with 'This job
\* is not open for applications.', creates no application and leaves
\* applications_count unchanged.
C23_ClosedIsRejected ==
  [][\A p \in ApplyIds :
       (nApplies' # nApplies /\ applyReqs'[p] # applyReqs[p]
          /\ C23_Closed(applyReqs'[p].job))
         => /\ applyReqs'[p].status = 400
            /\ applyReqs'[p].body = "This job is not open for applications."
            /\ jobApplications' = jobApplications
            /\ jobRows' = jobRows]_vars

\* C26: the applications stored for a job never outnumber its max_applications,
\* when that is set (0 included).
C26_WithinMax ==
  \A j \in JobIds :
    jobRows[j].max_applications # Unset =>
      Cardinality({a \in jobApplications : a.job = j}) <= jobRows[j].max_applications

(* ============ properties of the screening configurations ============== *)

\* C24: at most one ScreeningConfiguration has is_default = true.
C24_OneDefault ==
  Cardinality({k \in ConfigIds : configRows[k].exists /\ configRows[k].is_default}) <= 1

(* ======================= properties of hr_notes ======================= *)

C25_IsPrefix(s, t) == Len(s) <= Len(t) /\ SubSeq(t, 1, Len(s)) = s

\* the entries of a notes text: one ":" follows each timestamp
C25_Entries(s) == Cardinality({i \in DOMAIN s : s[i] = ":"})

\* C25: a call without notes leaves hr_notes as it was; a call with notes keeps
\* the earlier text as a prefix and adds one entry at the end, which starts with
\* the timestamp of the call.
C25_NotesStep ==
  [][\A a \in Apps :
       calls'[a] # calls[a] =>
         LET old == applications[a].hr_notes
             new == applications'[a].hr_notes
             notes == history'[Len(history')].notes
             k == IF old = <<>> THEN 1 ELSE Len(old) + 3
         IN  IF notes = <<>> THEN new = old
             ELSE /\ C25_IsPrefix(old, new)
                  /\ Len(new) > Len(old)
                  /\ C25_Entries(new) = C25_Entries(old) + 1
                  /\ new[k] = Strftime(now)
                  /\ new[k + 1] = ":"]_vars

\* C25: the entries of hr_notes are as many as the calls made with notes.
C25_NothingLost ==
  \A a \in Apps :
    C25_Entries(applications[a].hr_notes)
      = Cardinality({i \in DOMAIN history :
                       history[i].application = a /\ history[i].notes # <<>>})

\* C25: notes are appended, never lost or reordered.
C25_NotesAppended == []C25_NothingLost /\ C25_NotesStep

C25_Witness ==
  \E a \in Apps :
    /\ lastCall.app = a
    /\ lastCall.before.hr_notes # <<>>
    /\ applications[a].hr_notes # lastCall.before.hr_notes
    /\ C25_IsPrefix(lastCall.before.hr_notes, applications[a].hr_notes)
    /\ C25_Entries(applications[a].hr_notes) = 2

(* ================ further properties of the invitations =============== *)

\* C27: every user whose role Invitation.accept has written through the accept
\* endpoint has the email the invitation is addressed to.
C27_OnlyInvitee ==
  \A i \in InvIds : \A u \in grantees[i] : Email(u) = invitations[i].email

\* the accounts holding the token a request submitted, before the request
C28_Holders(op) ==
  IF op.op = "reset_password" THEN UsersWithResetToken(op.token)
  ELSE UsersWithVerifyToken(op.token)

\* the expiry stored with the token of the kind the request is about
C28_Expiry(op, u) ==
  IF op.op = "reset_password" THEN resetExpires[u] ELSE verifyExpires[u]

\* the submitted token is some account's stored token and its expiry is later than now
C28_Valid(op) ==
  /\ op.token # MalformedToken
  /\ \E u \in C28_Holders(op) : C28_Expiry(op, u) # Null /\ C28_Expiry(op, u) > now

C28_InvalidBody(op) ==
  IF op.op = "reset_password" THEN "Invalid reset token"
  ELSE "Invalid verification token"

C28_ExpiredBody(op) ==
  IF op.op = "reset_password" THEN "Reset token expired"
  ELSE "Verification token expired"

\* what one reset_password or verify_email request does
C28_TokenStep ==
  lastTokenOp'.n # lastTokenOp.n =>
    LET op == lastTokenOp' IN
    /\ (op.status = 200) <=> C28_Valid(op)
    /\ C28_Valid(op) =>
         \A u \in C28_Holders(op) :
           IF op.op = "reset_password"
           THEN /\ resetToken'[u] = Null /\ resetExpires'[u] = Null
                /\ password'[u] \in NewPasswords
                /\ \A v \in Users \ {u} : password'[v] = password[v]
                /\ UNCHANGED <<isVerified, verifyToken, verifyExpires>>
           ELSE /\ verifyToken'[u] = Null /\ verifyExpires'[u] = Null
                /\ isVerified'[u]
                /\ \A v \in Users \ {u} : isVerified'[v] = isVerified[v]
                /\ UNCHANGED <<password, resetToken, resetExpires>>
    /\ ~C28_Valid(op) =>
         /\ UNCHANGED <<password, isVerified, resetToken, resetExpires,
                        verifyToken, verifyExpires>>
         /\ op.status # 200
         /\ (op.token # MalformedToken /\ C28_Holders(op) = {}) =>
              (op.status = 400 /\ op.body = C28_InvalidBody(op))
         /\ C28_Holders(op) # {} =>
              (op.status = 400 /\ op.body = C28_ExpiredBody(op))
    /\ op.token \in usedTokens =>
         (op.status = 400 /\ op.body = C28_InvalidBody(op))

\* a token a request has succeeded with is no account's stored token any more
C28_UsedNotStored ==
  \A u \in Users : resetToken[u] \notin usedTokens /\ verifyToken[u] \notin usedTokens

\* C28: reset_password and verify_email succeed exactly when the submitted
\* token is an account's stored token whose expiry is later than now; a
\* success clears the stored token and expiry, so the same token submitted
\* again is answered 'Invalid ... token' and changes nothing; an expired
\* token is refused and the password, is_verified and the stored token stay
C28_SingleUseTimeLimited == [][C28_TokenStep]_vars /\ []C28_UsedNotStored

\* a reset token that has succeeded once is submitted again and refused
C28_Witness ==
  /\ lastTokenOp.op = "reset_password"
  /\ lastTokenOp.token \in usedTokens
  /\ lastTokenOp.status = 400
  /\ lastTokenOp.body = "Invalid reset token"
  /\ \E u \in Users : password[u] \in NewPasswords

\* an expired token was refused and is still stored
C28_ExpiredSeen ==
  /\ lastTokenOp.body = "Reset token expired"
  /\ \E u \in Users : resetToken[u] = lastTokenOp.token

====
